---- MODULE Spec2Model ----
(***************************************************************************)
(* Maze search visualiser (static/js/index.js).                            *)
(*                                                                         *)
(* Two parts of the script are modelled:                                   *)
(*   - generateAlgorithmSteps, the reconstruction of the frontier trace    *)
(*     (queue / stack / priority queue) from the solver's explored list,   *)
(*     stepped phase by phase under SpecSim;                               *)
(*   - solveMaze / startAnimation / the interval callback / resetMaze,     *)
(*     the playback scheduler, under SpecPlay.                             *)
(***************************************************************************)
EXTENDS Integers, Sequences, FiniteSets, TLC

\* ------------------------------------------------------------------ bounds
MaxExplored == 3
MaxPath == 2
MaxH == 1
MaxWeight == 3

\* --------------------------------------------------------- program constants
Start == "A"
Goal == "B"
NoTimer == 0
Nodes == {"A", "B", "C"}
Algorithms == {"bfs", "dfs", "astar"}

VARIABLES
    \* page data (template values and the heuristic table the script reads)
    mazeGraph, heuristic,
    \* arguments and locals of generateAlgorithmSteps
    algorithm, explored, path, frontier, visited, gScores, stepCount, i, pc,
    \* globals written by generateAlgorithmSteps
    algorithmSteps, dataStructureSteps,
    \* observers of the reconstruction (history, not program state)
    removed, preFrontier, preVisited, lastAct,
    \* playback globals
    animationInterval, currentAnimationStep, exploredNodes, pathNodes,
    \* exploredNodes === null (exploredNodes then holds no array and is kept <<>>)
    exploredNull,
    \* host state of the playback: live interval timers, the solve button,
    \* the request in flight, the rendered page
    timers, solveDisabled, pending, cellClasses, robotAt, stepsShown, dsShown,
    \* observers of the playback
    playState, tickLog, alerted, restarted, thrown, resetRun

pageVars == <<mazeGraph, heuristic>>
simVars == <<algorithm, explored, path, frontier, visited, gScores, stepCount, i, pc>>
outVars == <<algorithmSteps, dataStructureSteps>>
simObs == <<removed, preFrontier, preVisited, lastAct>>
playVars == <<animationInterval, currentAnimationStep, exploredNodes, pathNodes, exploredNull>>
hostVars == <<timers, solveDisabled, pending, cellClasses, robotAt, stepsShown, dsShown>>
playObs == <<playState, tickLog, alerted, restarted, thrown, resetRun>>
vars == <<pageVars, simVars, outVars, simObs, playVars, hostVars, playObs>>

\* ------------------------------------------------------------ sequence helpers
Last(s) == s[Len(s)]
Front(s) == SubSeq(s, 1, Len(s) - 1)
Reverse(s) == [k \in 1..Len(s) |-> s[Len(s) + 1 - k]]
Range(s) == {s[k] : k \in 1..Len(s)}
SeqsUpTo(S, n) == UNION {[1..k -> S] : k \in 0..n}
InjSeqs(S) == {s \in SeqsUpTo(S, Cardinality(S)) : \A a, b \in 1..Len(s) : a # b => s[a] # s[b]}

\* A JavaScript value that is a number or undefined: <<n>> or <<>>.
Undefined == <<>>
Num(n) == <<n>>
IsNum(v) == v # Undefined
\* v || 0 and v || 1 on such a value
OrZero(v) == IF IsNum(v) THEN v[1] ELSE 0
OrOne(v) == IF IsNum(v) /\ v[1] # 0 THEN v[1] ELSE 1

\* ------------------------------------------------------------------ the graph
\* The script reads a global table `heuristic` (lines 314, 316, 353) that it does
\* not declare; it is page data like mazeGraph, and may lack entries.
\* mazeGraph[n] is the object mazeGraph[n] as the sequence of its own keys in
\* iteration order, each with its value: <<neighbor, weight>>.
Keys(node) == [k \in 1..Len(mazeGraph[node]) |-> mazeGraph[node][k][1]]
EdgeValue(node, neighbor) ==
    LET ks == {k \in 1..Len(mazeGraph[node]) : mazeGraph[node][k][1] = neighbor}
    IN IF ks = {} THEN Undefined ELSE Num(mazeGraph[node][CHOOSE k \in ks : TRUE][2])
HeuristicOf(node) == IF node \in DOMAIN heuristic THEN Num(heuristic[node]) ELSE Undefined

\* ---------------------------------------------------------------- input sets
UnitLists(n) == {[k \in 1..Len(s) |-> <<s[k], 1>>] : s \in InjSeqs(Nodes \ {n})}
MkGraph(a, b, c) == [n \in Nodes |-> IF n = "A" THEN a ELSE IF n = "B" THEN b ELSE c]
UnitGraphs == {MkGraph(a, b, c) : a \in UnitLists("A"), b \in UnitLists("B"), c \in UnitLists("C")}
\* weighted graphs: every edge weighs 1 except at most one edge out of the start
\* node, of weight MaxWeight; the goal's own entry is never read by the A* branch
\* and is left empty
Heavier(g, k) == [g EXCEPT ![Start][k] = <<g[Start][k][1], MaxWeight>>]
AstarShapes == {MkGraph(a, <<>>, c) : a \in UnitLists("A"), c \in UnitLists("C")}
AstarGraphs == AstarShapes \cup UNION {{Heavier(g, k) : k \in 1..Len(g[Start])} : g \in AstarShapes}
\* heuristic tables: complete, without the start node, with the start node alone, empty
HeuristicTables == UNION {[D -> 0..MaxH] : D \in {Nodes, Nodes \ {Start}, {Start}, {}}}
\* the solver's explored order starts at the start node
ExploredInputs == {e \in SeqsUpTo(Nodes, MaxExplored) : e # <<>> => e[1] = Start}
PathInputs == {p \in SeqsUpTo(Nodes, MaxPath) : p # <<>> => p[1] = Start /\ Last(p) = Goal}

\* ------------------------------------------------------- narration and snapshots
Line(kind, step, node, list, nums) ==
    [kind |-> kind, step |-> step, node |-> node, list |-> list, nums |-> nums]

FormatPriorityQueue(queue) == [k \in 1..Len(queue) |-> [node |-> queue[k].node, f |-> queue[k].f]]
Snapshot(alg, fr) == IF alg = "astar" THEN FormatPriorityQueue(fr) ELSE fr

\* ----------------------------------------------------- Array.prototype helpers
Shift(q) == IF q = <<>> THEN q ELSE Tail(q)
Pop(s) == IF s = <<>> THEN s ELSE Front(s)
\* the comparator (a, b) => a[3] - b[3]; a NaN result counts as 0
CmpPositive(a, b) == IsNum(a.f) /\ IsNum(b.f) /\ a.f[1] - b.f[1] > 0
RECURSIVE InsertByF(_, _)
InsertByF(s, x) ==
    IF s = <<>> THEN <<x>>
    ELSE IF CmpPositive(Last(s), x) THEN Append(InsertByF(Front(s), x), Last(s))
    ELSE Append(s, x)
RECURSIVE SortByF(_)
SortByF(q) == IF q = <<>> THEN q ELSE InsertByF(SortByF(Front(q)), Last(q))

\* ------------------------------------------- generateAlgorithmSteps, by phase
\* The locals of generateAlgorithmSteps and the two globals it fills, as one record.
Locals ==
    [frontier |-> frontier, visited |-> visited, gScores |-> gScores, stepCount |-> stepCount,
     algorithmSteps |-> algorithmSteps, dataStructureSteps |-> dataStructureSteps]

\* Lines 219-233 (bfs), 219-275 (dfs), 219-320 (astar): the state at the loop's entry.
StartEntry == [node |-> Start, g |-> 0, h |-> HeuristicOf(Start), f |-> HeuristicOf(Start)]
InitLocals(alg) ==
    IF alg = "astar"
    THEN [frontier |-> <<StartEntry>>, visited |-> {}, gScores |-> [n \in {Start} |-> 0],
          stepCount |-> 1,
          algorithmSteps |-> <<Line("init", 0, Start, <<>>, <<StartEntry.h, StartEntry.f>>)>>,
          dataStructureSteps |-> <<FormatPriorityQueue(<<StartEntry>>)>>]
    ELSE [frontier |-> <<Start>>, visited |-> {Start}, gScores |-> [n \in {} |-> 0],
          stepCount |-> 1,
          algorithmSteps |-> <<Line("init", 0, Start, <<>>, <<>>)>>,
          dataStructureSteps |-> <<<<Start>>>>]

\* The element the policy removes from its frontier: queue.shift(), stack.pop(),
\* priorityQueue.shift().
Remove(alg, fr) == IF alg = "dfs" THEN Pop(fr) ELSE Shift(fr)

\* bug variant: the removal is not skipped at index 0
VisitPhaseFromZero(alg, st, idx, node) ==
    LET s0 == IF alg = "astar" THEN [st EXCEPT !.visited = @ \cup {node}] ELSE st
    IN [s0 EXCEPT
          !.algorithmSteps = Append(@, Line("pop", s0.stepCount, node, <<>>, <<>>)),
          !.frontier = Remove(alg, @),
          !.dataStructureSteps = Append(@, Snapshot(alg, Remove(alg, s0.frontier))),
          !.stepCount = @ + 1]
\* Lines 236-244, 278-286, 323-335: the head of one loop iteration.
VisitPhase(alg, st, idx, node) ==
    LET s0 == IF alg = "astar" THEN [st EXCEPT !.visited = @ \cup {node}] ELSE st
    IN IF idx > 0
       THEN [s0 EXCEPT
               !.algorithmSteps = Append(@, Line("pop", s0.stepCount, node, <<>>, <<>>)),
               !.frontier = Remove(alg, @),
               !.dataStructureSteps = Append(@, Snapshot(alg, Remove(alg, s0.frontier))),
               !.stepCount = @ + 1]
       ELSE s0

\* Lines 247-248, 289-291, 344-345: the neighbours the iteration is about to add.
\* bug variant: the `!visited.has(n)` filter is missing
UnvisitedUnfiltered(node, vis) == Keys(node)
Unvisited(node, vis) == SelectSeq(Keys(node), LAMBDA n : n \notin vis)
\* bug variants: the bfs queue filled in reversed order; the dfs stack filled unreversed
NeighborsAlwaysReversed(alg, node, vis) == Reverse(Unvisited(node, vis))
NeighborsNeverReversed(alg, node, vis) == Unvisited(node, vis)
NeighborsToAdd(alg, node, vis) ==
    IF alg = "dfs" THEN Reverse(Unvisited(node, vis)) ELSE Unvisited(node, vis)

SetG(g, k, v) == [x \in DOMAIN g \cup {k} |-> IF x = k THEN v ELSE g[x]]

\* Lines 350-365: the loop over the unvisited neighbours of an A* node.
RECURSIVE EvaluateNeighbors(_, _, _, _)
EvaluateNeighbors(st, node, currentG, nbrs) ==
    IF nbrs = <<>> THEN st
    ELSE LET neighbor == Head(nbrs)
             edgeCost == OrOne(EdgeValue(node, neighbor))
             newG == currentG + edgeCost
             h == OrZero(HeuristicOf(neighbor))
             f == newG + h
             better == neighbor \notin DOMAIN st.gScores \/ newG < st.gScores[neighbor]
             entry == [node |-> neighbor, g |-> newG, h |-> Num(h), f |-> Num(f)]
             s1 == IF better
                   THEN [st EXCEPT
                           !.gScores = SetG(@, neighbor, newG),
                           !.algorithmSteps = Append(@, Line("calc", st.stepCount, neighbor, <<>>,
                                                            <<Num(newG), Num(h), Num(f)>>)),
                           !.frontier = SortByF(Append(@, entry))]
                   ELSE st
         IN EvaluateNeighbors(s1, node, currentG, Tail(nbrs))

\* Lines 246-258, 288-301, 343-369: neighbour expansion of one iteration.
ExpandPhase(alg, st, node) ==
    LET neighbors == NeighborsToAdd(alg, node, st.visited)
    IN IF neighbors = <<>> THEN st
       ELSE IF alg = "astar"
       THEN LET currentG == IF node \in DOMAIN st.gScores THEN st.gScores[node] ELSE 0
                s1 == [st EXCEPT !.algorithmSteps =
                          Append(@, Line("expand", st.stepCount, node, neighbors, <<>>))]
                s2 == EvaluateNeighbors(s1, node, currentG, neighbors)
            IN [s2 EXCEPT !.dataStructureSteps = Append(@, FormatPriorityQueue(s2.frontier)),
                          !.stepCount = @ + 1]
       ELSE [st EXCEPT
               !.algorithmSteps = Append(@, Line("expand", st.stepCount, node, neighbors, <<>>)),
               !.visited = @ \cup Range(neighbors),
               !.frontier = @ \o neighbors,
               !.dataStructureSteps = Append(@, st.frontier \o neighbors),
               !.stepCount = @ + 1]

\* Lines 261, 304, 338: the goal test.
GoalReached(node) == node = Goal
\* Lines 262, 305, 339: the goal narration.
GoalPhase(st) ==
    [st EXCEPT !.algorithmSteps = Append(@, Line("goal", st.stepCount, Goal, <<>>, <<>>))]

\* Lines 235/263, 277/306, 322/340: the loop goes on to index idx + 1 unless it
\* broke at the goal or ran out of explored nodes.
\* bug variant: the break after the goal narration is missing
LoopWithoutBreak(node, idx, expl) == idx + 1 < Len(expl)
LoopContinues(node, idx, expl) == ~GoalReached(node) /\ idx + 1 < Len(expl)

\* Lines 373-376: the three summary lines.
SummaryPhase(st, expl, p) ==
    [st EXCEPT !.algorithmSteps = @ \o
        <<Line("path", 0, "", p, <<>>),
          Line("pathlen", 0, "", <<>>, <<Num(Len(p))>>),
          Line("total", 0, "", <<>>, <<Num(Len(expl))>>)>>]

\* Which phase follows which inside one iteration: bfs and dfs expand before the
\* goal test (246-264, 288-307), astar tests the goal first (337-369).
AfterVisit(alg) == IF alg = "astar" THEN "goal" ELSE "expand"

\* Lines 235-265, 277-308, 322-370: the loop, run to its end.
RECURSIVE RunLoop(_, _, _, _)
RunLoop(alg, st, idx, expl) ==
    IF idx >= Len(expl) THEN st
    ELSE LET node == expl[idx + 1]
             s1 == VisitPhase(alg, st, idx, node)
             s2 == IF AfterVisit(alg) = "goal"
                   THEN (IF GoalReached(node) THEN GoalPhase(s1) ELSE ExpandPhase(alg, s1, node))
                   ELSE (IF GoalReached(node) THEN GoalPhase(ExpandPhase(alg, s1, node))
                         ELSE ExpandPhase(alg, s1, node))
         IN IF LoopContinues(node, idx, expl) THEN RunLoop(alg, s2, idx + 1, expl) ELSE s2

\* Lines 218-377: generateAlgorithmSteps(algorithm, explored, path) on arrays.
GenerateAlgorithmSteps(alg, expl, p) == SummaryPhase(RunLoop(alg, InitLocals(alg), 0, expl), expl, p)

\* -------------------------------------------------- the playback at page load
\* Lines 14-19 and the page as createMaze leaves it (lines 27-72).
NoClasses == [n \in Nodes |-> {}]
PlayIdle ==
    /\ animationInterval = NoTimer
    /\ currentAnimationStep = 0
    /\ exploredNodes = <<>>
    /\ exploredNull = FALSE
    /\ pathNodes = <<>>
    /\ timers = {}
    /\ solveDisabled = FALSE
    /\ pending = <<>>
    /\ cellClasses = NoClasses
    /\ robotAt = Start
    /\ stepsShown = 0
    /\ dsShown = <<>>
    /\ playState = "Idle"
    /\ tickLog = <<>>
    /\ alerted = FALSE
    /\ restarted = FALSE
    /\ thrown = FALSE
    /\ resetRun = 0

\* ------------------------------- SpecSim: generateAlgorithmSteps step by step
SetLocals(r) ==
    /\ frontier' = r.frontier
    /\ visited' = r.visited
    /\ gScores' = r.gScores
    /\ stepCount' = r.stepCount
    /\ algorithmSteps' = r.algorithmSteps
    /\ dataStructureSteps' = r.dataStructureSteps

\* The node id of a frontier element, and the element a removal takes out.
NodeOf(alg, e) == IF alg = "astar" THEN e.node ELSE e
RemovedBy(alg, fr) == IF alg = "dfs" THEN Last(fr) ELSE Head(fr)

\* The solver returns a route to the goal when it reached the goal, none otherwise.
SimPath(expl) == IF Goal \in Range(expl) THEN <<Start, Goal>> ELSE <<>>

InitSim ==
    /\ algorithm \in Algorithms
    /\ mazeGraph \in (IF algorithm = "astar" THEN AstarGraphs ELSE UnitGraphs)
    /\ heuristic \in (IF algorithm = "astar" THEN HeuristicTables ELSE {[n \in {} |-> 0]})
    /\ explored \in ExploredInputs
    /\ path = SimPath(explored)
    /\ LET r == InitLocals(algorithm)
       IN /\ frontier = r.frontier
          /\ visited = r.visited
          /\ gScores = r.gScores
          /\ stepCount = r.stepCount
          /\ algorithmSteps = r.algorithmSteps
          /\ dataStructureSteps = r.dataStructureSteps
    /\ i = 0
    /\ pc = IF explored = <<>> THEN "summary" ELSE "visit"
    /\ removed = <<>>
    /\ preFrontier = <<>>
    /\ preVisited = {}
    /\ lastAct = "init"
    /\ PlayIdle

\* Lines 236-244 / 278-286 / 323-335
SimVisit ==
    /\ pc = "visit"
    /\ SetLocals(VisitPhase(algorithm, Locals, i, explored[i + 1]))
    /\ removed' = IF i > 0 /\ frontier # <<>>
                  THEN Append(removed, NodeOf(algorithm, RemovedBy(algorithm, frontier)))
                  ELSE removed
    /\ pc' = AfterVisit(algorithm)
    /\ lastAct' = "visit"
    /\ UNCHANGED <<pageVars, algorithm, explored, path, i, preFrontier, preVisited,
                   playVars, hostVars, playObs>>

\* Lines 246-258 / 288-301 / 343-369
SimExpand ==
    /\ pc = "expand"
    /\ LET node == explored[i + 1]
           r == ExpandPhase(algorithm, Locals, node)
       IN /\ SetLocals(r)
          /\ lastAct' = IF Len(r.dataStructureSteps) > Len(dataStructureSteps)
                        THEN "expand" ELSE "skip"
          /\ IF algorithm = "astar"
             THEN /\ pc' = IF LoopContinues(node, i, explored) THEN "visit" ELSE "summary"
                  /\ i' = i + 1
             ELSE /\ pc' = "goal"
                  /\ i' = i
    /\ preFrontier' = frontier
    /\ preVisited' = visited
    /\ UNCHANGED <<pageVars, algorithm, explored, path, removed, playVars, hostVars, playObs>>

\* Lines 260-264 / 303-307 / 337-341
SimGoal ==
    /\ pc = "goal"
    /\ LET node == explored[i + 1]
           reached == GoalReached(node)
           goOn == LoopContinues(node, i, explored)
       IN /\ SetLocals(IF reached THEN GoalPhase(Locals) ELSE Locals)
          /\ lastAct' = IF reached THEN "goal" ELSE "nogoal"
          /\ IF algorithm = "astar" /\ ~reached
             THEN pc' = "expand" /\ i' = i
             ELSE /\ pc' = IF goOn THEN "visit" ELSE "summary"
                  /\ i' = IF reached /\ ~goOn THEN i ELSE i + 1
    /\ UNCHANGED <<pageVars, algorithm, explored, path, removed, preFrontier, preVisited,
                   playVars, hostVars, playObs>>

\* Lines 373-376
SimSummary ==
    /\ pc = "summary"
    /\ SetLocals(SummaryPhase(Locals, explored, path))
    /\ pc' = "done"
    /\ lastAct' = "summary"
    /\ UNCHANGED <<pageVars, algorithm, explored, path, i, removed, preFrontier, preVisited,
                   playVars, hostVars, playObs>>

NextSim == SimVisit \/ SimExpand \/ SimGoal \/ SimSummary
SpecSim == InitSim /\ [][NextSim]_vars

\* The step machine and the closed form are the same function.
SimAgreesWithClosedForm ==
    pc = "done" =>
        LET r == GenerateAlgorithmSteps(algorithm, explored, path)
        IN algorithmSteps = r.algorithmSteps /\ dataStructureSteps = r.dataStructureSteps

\* ------------------------------------------------ properties of the reconstruction
\* The not yet visited neighbours of a node in the graph's own key order, read
\* off mazeGraph directly.
RECURSIVE NaturalUnvisited(_, _)
NaturalUnvisited(edges, vis) ==
    IF edges = <<>> THEN <<>>
    ELSE IF Head(edges)[1] \in vis THEN NaturalUnvisited(Tail(edges), vis)
    ELSE <<Head(edges)[1]>> \o NaturalUnvisited(Tail(edges), vis)

\* The index (from 1) of the node whose expansion was the last thing recorded.
ExpandedIdx == IF algorithm = "astar" THEN i ELSE i + 1
JustExpanded == lastAct = "expand"
NoDuplicates(s) == \A a, b \in 1..Len(s) : a # b => s[a] # s[b]

\* C1: in the BFS reconstruction, the snapshot recorded right after expanding
\* explored[k] is the queue as it stood just before the expansion (the nodes
\* enqueued so far and not yet removed, in order) followed by exactly the not yet
\* visited neighbours of explored[k] in the graph's key order.
C1_BfsSnapshotAppendsUnvisited ==
    (algorithm = "bfs" /\ JustExpanded) =>
        /\ Last(dataStructureSteps) =
              preFrontier \o NaturalUnvisited(mazeGraph[explored[ExpandedIdx]], preVisited)
        /\ NoDuplicates(preFrontier)
        /\ Range(preFrontier) = preVisited \ Range(removed)
        /\ frontier = Last(dataStructureSteps)
C1_Witness ==
    /\ algorithm = "bfs" /\ JustExpanded /\ i >= 1
    /\ preFrontier # <<>>
    /\ Len(Last(dataStructureSteps)) > Len(preFrontier)

\* C2: after the first expansion (explored index 0) the snapshot holds only the
\* start node's newly added neighbours and no longer the start node itself.
C2_FirstSnapshotDropsStart ==
    (algorithm \in {"bfs", "dfs"} /\ JustExpanded /\ i = 0) =>
        /\ Start \notin Range(Last(dataStructureSteps))
        /\ Last(dataStructureSteps) = NeighborsToAdd(algorithm, explored[1], {Start})

\* C3: in the DFS reconstruction, after expanding explored[k] the first not yet
\* visited neighbour of explored[k] (in key order) is on top of the stack: it is
\* what the next pop removes.
C3_DfsFirstNeighbourOnTop ==
    (algorithm = "dfs" /\ JustExpanded) =>
        LET first == Head(NaturalUnvisited(mazeGraph[explored[ExpandedIdx]], preVisited))
        IN /\ Last(Last(dataStructureSteps)) = first
           /\ frontier = Append(Remove("dfs", frontier), first)
C3_Witness ==
    /\ algorithm = "dfs" /\ JustExpanded
    /\ Len(frontier) >= Len(preFrontier) + 2

\* C4: in the A* reconstruction every recorded snapshot is in ascending order of f.
LeqF(a, b) == IsNum(a) /\ IsNum(b) /\ a[1] <= b[1]
SortedByF(snap) == \A a, b \in 1..Len(snap) : a < b => LeqF(snap[a].f, snap[b].f)
C4_SnapshotsSortedByF ==
    algorithm = "astar" => \A k \in 1..Len(dataStructureSteps) : SortedByF(dataStructureSteps[k])
\* The snapshots are sorted whenever the heuristic table has an entry for the start node.
SortedWhenStartHasHeuristic ==
    (algorithm = "astar" /\ Start \in DOMAIN heuristic) =>
        \A k \in 1..Len(dataStructureSteps) : SortedByF(dataStructureSteps[k])

\* C5: in the A* reconstruction every visited node has been removed from the
\* priority queue at least once.
C5_VisitedOnlyAfterPop ==
    algorithm = "astar" => visited \subseteq Range(removed)

\* C6: when explored contains the goal, exactly one goal narration is emitted, at
\* the first index holding the goal, and no later index is processed.
GoalLines == {k \in 1..Len(algorithmSteps) : algorithmSteps[k].kind = "goal"}
PopLines == {k \in 1..Len(algorithmSteps) : algorithmSteps[k].kind = "pop"}
FirstGoalIdx == CHOOSE k \in 1..Len(explored) :
    explored[k] = Goal /\ \A j \in 1..(k - 1) : explored[j] # Goal
C6_OneGoalLineThenStop ==
    /\ Cardinality(GoalLines) <= 1
    /\ Goal \in Range(explored) =>
          /\ i + 1 <= FirstGoalIdx
          /\ Cardinality(PopLines) <= FirstGoalIdx - 1
          /\ pc \in {"summary", "done"} =>
                /\ i + 1 = FirstGoalIdx
                /\ Cardinality(GoalLines) = 1
                /\ Cardinality(PopLines) = FirstGoalIdx - 1
          /\ pc = "summary" => Last(algorithmSteps).kind = "goal"
C6_Witness ==
    /\ pc = "done" /\ Goal \in Range(explored)
    /\ FirstGoalIdx < Len(explored)
    /\ Cardinality(GoalLines) = 1

\* C7: no neighbour expansion is performed for the goal node: nothing is added to
\* the frontier or the visited set and no expansion step is recorded for it.
C7_GoalIsNotExpanded ==
    /\ JustExpanded => explored[ExpandedIdx] # Goal
    /\ (pc = "goal" /\ algorithm # "astar" /\ explored[i + 1] = Goal) =>
          frontier = preFrontier /\ visited = preVisited

\* ------------------------------------------------------- SpecPlay: the playback
\* The playback globals, the host's live timers and the rendered page, as one record.
PlayRec ==
    [animationInterval |-> animationInterval, timers |-> timers,
     currentAnimationStep |-> currentAnimationStep,
     exploredNodes |-> exploredNodes, exploredNull |-> exploredNull, pathNodes |-> pathNodes,
     algorithmSteps |-> algorithmSteps, dataStructureSteps |-> dataStructureSteps,
     cellClasses |-> cellClasses, robotAt |-> robotAt,
     stepsShown |-> stepsShown, dsShown |-> dsShown]
SetPlay(r) ==
    /\ animationInterval' = r.animationInterval
    /\ timers' = r.timers
    /\ currentAnimationStep' = r.currentAnimationStep
    /\ exploredNodes' = r.exploredNodes
    /\ exploredNull' = r.exploredNull
    /\ pathNodes' = r.pathNodes
    /\ algorithmSteps' = r.algorithmSteps
    /\ dataStructureSteps' = r.dataStructureSteps
    /\ cellClasses' = r.cellClasses
    /\ robotAt' = r.robotAt
    /\ stepsShown' = r.stepsShown
    /\ dsShown' = r.dsShown

\* setInterval hands out an id no live timer has; clearInterval retires one.
SetInterval(ts) == CHOOSE id \in 1..(Cardinality(ts) + 1) : id \notin ts
\* bug variant: the timer is left running
ClearIntervalForgotten(ts, id) == ts
ClearInterval(ts, id) == ts \ {id}

\* Lines 85-94
PositionRobotAtNode(s, nodeId) == [s EXCEPT !.robotAt = nodeId]
\* Lines 206-216
HighlightNode(s, nodeId, className) == [s EXCEPT !.cellClasses[nodeId] = @ \cup {className}]
\* Lines 389-418
UpdateAlgorithmStep(s, step) ==
    LET s1 == IF step < Len(s.algorithmSteps) THEN [s EXCEPT !.stepsShown = step + 1] ELSE s
    IN IF step < Len(s.dataStructureSteps)
       THEN [s1 EXCEPT !.dsShown = <<s.dataStructureSteps[step + 1]>>]
       ELSE s1

\* bug variant: the whole reset sits inside `if (animationInterval)`
ResetMazeOnlyWhenRunning(s) ==
    IF s.animationInterval = NoTimer THEN s
    ELSE [s EXCEPT
            !.timers = ClearInterval(@, s.animationInterval),
            !.animationInterval = NoTimer,
            !.currentAnimationStep = 0,
            !.exploredNodes = <<>>,
            !.exploredNull = FALSE,
            !.pathNodes = <<>>,
            !.algorithmSteps = <<>>,
            !.dataStructureSteps = <<>>,
            !.cellClasses = NoClasses,
            !.robotAt = Start,
            !.stepsShown = 0,
            !.dsShown = <<>>]
\* Lines 145-169
ResetMaze(s) ==
    [s EXCEPT
       !.timers = IF s.animationInterval # NoTimer THEN ClearInterval(@, s.animationInterval) ELSE @,
       !.animationInterval = NoTimer,
       !.currentAnimationStep = 0,
       !.exploredNodes = <<>>,
       !.exploredNull = FALSE,
       !.pathNodes = <<>>,
       !.algorithmSteps = <<>>,
       !.dataStructureSteps = <<>>,
       !.cellClasses = NoClasses,
       !.robotAt = Start,
       !.stepsShown = 0,
       !.dsShown = <<>>]

\* bug variant: solveMaze does not reset first
SolveMazeWithoutReset(s) == s
\* Line 112: solveMaze begins with resetMaze()
SolveMazeEntry(s) == ResetMaze(s)

\* Lines 171-204: startAnimation up to and including setInterval
StartAnimation(s, expl, p, alg) ==
    LET gen == GenerateAlgorithmSteps(alg, expl, p)
        id == SetInterval(s.timers)
    IN [s EXCEPT
          !.exploredNodes = expl,
          !.exploredNull = FALSE,
          !.pathNodes = p,
          !.algorithmSteps = gen.algorithmSteps,
          !.dataStructureSteps = gen.dataStructureSteps,
          !.currentAnimationStep = 0,
          !.animationInterval = id,
          !.timers = @ \cup {id}]

\* Lines 172-175 with explored = null: the globals are assigned, the branch of
\* generateAlgorithmSteps stores its first line and snapshot, and explored.length
\* (line 235, 277 or 322) throws a TypeError before setInterval is reached.
StartAnimationOnNull(s, p, alg) ==
    LET r == InitLocals(alg)
    IN [s EXCEPT
          !.exploredNodes = <<>>,
          !.exploredNull = TRUE,
          !.pathNodes = p,
          !.algorithmSteps = r.algorithmSteps,
          !.dataStructureSteps = r.dataStructureSteps]

\* bug variant: the path phase is bounded by the path's length alone
TickPhaseShortPath(s) ==
    IF s.currentAnimationStep < Len(s.exploredNodes) THEN "explore"
    ELSE IF s.currentAnimationStep < Len(s.pathNodes) THEN "path"
    ELSE "complete"
\* Lines 184, 190, 198: the branch the interval callback takes
TickPhase(s) ==
    IF s.currentAnimationStep < Len(s.exploredNodes) THEN "explore"
    ELSE IF s.currentAnimationStep < Len(s.exploredNodes) + Len(s.pathNodes) THEN "path"
    ELSE "complete"

\* bug variant: the final else branch (clearInterval) is missing
TickBodyNeverStops(s) ==
    LET step == s.currentAnimationStep
    IN IF TickPhase(s) = "explore"
       THEN LET nodeId == s.exploredNodes[step + 1]
            IN [UpdateAlgorithmStep(HighlightNode(s, nodeId, "visited"), step)
                   EXCEPT !.currentAnimationStep = step + 1]
       ELSE IF TickPhase(s) = "path"
       THEN LET pathIndex == step - Len(s.exploredNodes)
                nodeId == s.pathNodes[pathIndex + 1]
            IN [UpdateAlgorithmStep(PositionRobotAtNode(HighlightNode(s, nodeId, "in-path"), nodeId),
                                    step)
                   EXCEPT !.currentAnimationStep = step + 1]
       ELSE s
\* Lines 183-203: the interval callback
TickBody(s) ==
    LET step == s.currentAnimationStep
    IN IF TickPhase(s) = "explore"
       THEN LET nodeId == s.exploredNodes[step + 1]
            IN [UpdateAlgorithmStep(HighlightNode(s, nodeId, "visited"), step)
                   EXCEPT !.currentAnimationStep = step + 1]
       ELSE IF TickPhase(s) = "path"
       THEN LET pathIndex == step - Len(s.exploredNodes)
                nodeId == s.pathNodes[pathIndex + 1]
            IN [UpdateAlgorithmStep(PositionRobotAtNode(HighlightNode(s, nodeId, "in-path"), nodeId),
                                    step)
                   EXCEPT !.currentAnimationStep = step + 1]
       ELSE [s EXCEPT !.timers = ClearInterval(@, s.animationInterval),
                      !.animationInterval = NoTimer]

\* The rendering calls one run of the callback makes, in order.
Instr(op, nodeId, arg) == [op |-> op, node |-> nodeId, arg |-> arg]
TickEmits(s) ==
    LET step == s.currentAnimationStep
    IN IF TickPhase(s) = "explore"
       THEN <<Instr("highlightNode", s.exploredNodes[step + 1], "visited"),
              Instr("updateAlgorithmStep", "", "")>>
       ELSE IF TickPhase(s) = "path"
       THEN LET nodeId == s.pathNodes[step - Len(s.exploredNodes) + 1]
            IN <<Instr("highlightNode", nodeId, "in-path"),
                 Instr("positionRobotAtNode", nodeId, ""),
                 Instr("updateAlgorithmStep", "", "")>>
       ELSE <<>>

\* the graphs and heuristic tables of the pages the playback is run on
PlayGraphs == {g \in AstarShapes : Len(g[Start]) = 2}
PlayHeuristics == {[n \in Nodes |-> 0], [n \in {} |-> 0]}

InitPlay ==
    /\ mazeGraph \in PlayGraphs
    /\ heuristic \in PlayHeuristics
    /\ algorithm = "bfs"
    /\ explored = <<>>
    /\ path = <<>>
    /\ frontier = <<>>
    /\ visited = {}
    /\ gScores = [n \in {} |-> 0]
    /\ stepCount = 0
    /\ i = 0
    /\ pc = "idle"
    /\ algorithmSteps = <<>>
    /\ dataStructureSteps = <<>>
    /\ removed = <<>>
    /\ preFrontier = <<>>
    /\ preVisited = {}
    /\ lastAct = "init"
    /\ PlayIdle

\* Lines 111-116: a click on the solve button (a disabled button takes no click)
ClickSolve ==
    /\ ~solveDisabled
    /\ \E alg \in Algorithms :
          /\ SetPlay(SolveMazeEntry(PlayRec))
          /\ pending' = <<alg>>
    /\ solveDisabled' = TRUE
    /\ restarted' = (animationInterval # NoTimer)
    /\ playState' = "Idle"
    /\ tickLog' = <<>>
    /\ alerted' = FALSE
    /\ thrown' = FALSE
    /\ resetRun' = IF resetRun = 0 THEN 1 ELSE 2
    /\ UNCHANGED <<pageVars, simVars, simObs>>

\* Lines 119-136, 140-142: the solver answers; playback starts
FetchResolve ==
    /\ pending # <<>>
    /\ \E expl \in ExploredInputs, p \in PathInputs :
          SetPlay(StartAnimation(PlayRec, expl, p, pending[1]))
    /\ pending' = <<>>
    /\ solveDisabled' = FALSE
    /\ playState' = "Running"
    /\ tickLog' = <<>>
    /\ resetRun' = 0
    /\ UNCHANGED <<pageVars, simVars, simObs, alerted, restarted, thrown>>

\* Lines 135-142 with result.explored = null: startAnimation throws, the catch
\* block alerts, the finally block re-enables the button
FetchResolveNull ==
    /\ pending # <<>>
    /\ \E p \in PathInputs : SetPlay(StartAnimationOnNull(PlayRec, p, pending[1]))
    /\ pending' = <<>>
    /\ solveDisabled' = FALSE
    /\ alerted' = TRUE
    /\ thrown' = TRUE
    /\ resetRun' = 0
    /\ UNCHANGED <<pageVars, simVars, simObs, playState, tickLog, restarted>>

\* bug variant: the button is re-enabled on success only (no finally block)
FetchFailLeavesDisabled ==
    /\ pending # <<>>
    /\ pending' = <<>>
    /\ alerted' = TRUE
    /\ UNCHANGED <<pageVars, simVars, simObs, outVars, playVars, timers, cellClasses, robotAt,
                   stepsShown, dsShown, playState, tickLog, restarted, thrown, resetRun,
                   solveDisabled>>
\* Lines 131-133, 137-142: the request fails or the response is not ok
FetchFail ==
    /\ pending # <<>>
    /\ pending' = <<>>
    /\ solveDisabled' = FALSE
    /\ alerted' = TRUE
    /\ UNCHANGED <<pageVars, simVars, simObs, outVars, playVars, timers, cellClasses, robotAt,
                   stepsShown, dsShown, playState, tickLog, restarted, thrown, resetRun>>

\* Lines 145-169: resetMaze() from the page
ClickReset ==
    /\ SetPlay(ResetMaze(PlayRec))
    /\ playState' = "Idle"
    /\ tickLog' = <<>>
    /\ resetRun' = IF resetRun = 0 THEN 1 ELSE 2
    /\ UNCHANGED <<pageVars, simVars, simObs, solveDisabled, pending, alerted, restarted, thrown>>

\* Lines 183-203: a live interval timer fires
Tick ==
    /\ \E t \in timers : SetPlay(TickBody(PlayRec))
    /\ tickLog' = IF TickEmits(PlayRec) = <<>> THEN tickLog
                  ELSE Append(tickLog, [n |-> currentAnimationStep, instr |-> TickEmits(PlayRec)])
    /\ playState' = IF TickPhase(PlayRec) = "complete" THEN "Complete" ELSE playState
    /\ resetRun' = 0
    /\ UNCHANGED <<pageVars, simVars, simObs, solveDisabled, pending, alerted, restarted, thrown>>

NextPlay == ClickSolve \/ FetchResolve \/ FetchResolveNull \/ FetchFail \/ ClickReset \/ Tick
SpecPlay == InitPlay /\ [][NextPlay]_vars
\* setInterval keeps firing its callback for as long as the timer is live.
\* The fair playback runs on the pages whose node C has no neighbours and whose
\* heuristic table is complete.
InitPlayFair == InitPlay /\ mazeGraph["C"] = <<>> /\ DOMAIN heuristic = Nodes
SpecPlayFair == InitPlayFair /\ [][NextPlay]_vars /\ WF_vars(Tick)

\* ------------------------------------------------------ properties of the playback
HasInstr(entry, op, nodeId, arg) == \E k \in 1..Len(entry.instr) : entry.instr[k] = Instr(op, nodeId, arg)
MovesRobot(entry) == \E k \in 1..Len(entry.instr) : entry.instr[k].op = "positionRobotAtNode"

\* C8: after a start with E explored and P path nodes and no reset, tick n < E
\* highlights explored[n] and moves nothing, tick n with E <= n < E + P
\* highlights path[n - E] and moves the robot there, the tick index grows by one
\* per emitting tick, and exactly E + P ticks have emitted when playback completes.
C8_TickSchedule ==
    playState \in {"Running", "Complete"} =>
        LET E == Len(exploredNodes)
            P == Len(pathNodes)
        IN /\ Len(tickLog) = currentAnimationStep
           /\ Len(tickLog) <= E + P
           /\ \A k \in 1..Len(tickLog) :
                 /\ tickLog[k].n = k - 1
                 /\ k <= E => /\ HasInstr(tickLog[k], "highlightNode", exploredNodes[k], "visited")
                              /\ ~MovesRobot(tickLog[k])
                 /\ k > E => /\ HasInstr(tickLog[k], "highlightNode", pathNodes[k - E], "in-path")
                             /\ HasInstr(tickLog[k], "positionRobotAtNode", pathNodes[k - E], "")
           /\ playState = "Complete" => Len(tickLog) = E + P
C8_Witness ==
    /\ playState = "Complete"
    /\ Len(exploredNodes) = 3 /\ Len(pathNodes) = 2
    /\ Len(tickLog) = 5

\* C9: a solve issued while playback runs resets it before the new playback
\* starts, so at most one interval timer is ever live, and it is the one
\* animationInterval holds.
C9_AtMostOneTimer ==
    /\ Cardinality(timers) <= 1
    /\ timers \subseteq {animationInterval}
    /\ pending # <<>> => timers = {} /\ animationInterval = NoTimer
C9_Witness ==
    /\ restarted /\ playState = "Running"
    /\ Cardinality(timers) = 1
    /\ currentAnimationStep >= 1

\* C10: once resetMaze has run, no tick fires and nothing is rendered until the
\* next start.
PageCleared ==
    /\ cellClasses = NoClasses
    /\ robotAt = Start
    /\ stepsShown = 0
    /\ dsShown = <<>>
C10_NoTickAfterReset ==
    playState = "Idle" =>
        /\ timers = {}
        /\ animationInterval = NoTimer
        /\ tickLog = <<>>
        /\ PageCleared
C10_Witness ==
    /\ restarted /\ playState = "Idle"
    /\ pending # <<>>
    /\ timers = {}

\* C11: resetMaze is idempotent: applied to the state a reset has left, it
\* changes nothing, and after one reset or several in a row the playback is
\* idle with no live timer, tick index 0 and empty buffers.
BuffersEmpty ==
    /\ exploredNodes = <<>> /\ ~exploredNull
    /\ pathNodes = <<>>
    /\ algorithmSteps = <<>>
    /\ dataStructureSteps = <<>>
C11_ResetIdempotent ==
    /\ ResetMaze(ResetMaze(PlayRec)) = ResetMaze(PlayRec)
    /\ resetRun >= 1 =>
          /\ PlayRec = ResetMaze(PlayRec)
          /\ playState = "Idle"
          /\ timers = {} /\ animationInterval = NoTimer
          /\ currentAnimationStep = 0
          /\ BuffersEmpty
C11_Witness ==
    /\ resetRun = 2
    /\ restarted
    /\ pending = <<>>

\* C12: when the solve request fails (the fetch rejects or the response is not
\* ok), no playback is started: no timer exists, the playback is idle with empty
\* buffers, and the solve button is enabled again.
RequestFailed == alerted /\ ~thrown
C12_FailureLeavesIdle ==
    RequestFailed =>
        /\ timers = {} /\ animationInterval = NoTimer
        /\ playState = "Idle"
        /\ currentAnimationStep = 0
        /\ BuffersEmpty
        /\ tickLog = <<>>
        /\ pending = <<>>
        /\ ~solveDisabled
C12_Witness ==
    /\ RequestFailed
    /\ restarted
    /\ resetRun = 1

\* C13: a start whose explored input is empty or null goes to Complete at once:
\* no exception is raised, no timer is left live and no rendering instruction is
\* emitted.
StartedOnEmpty == playState # "Idle" /\ exploredNodes = <<>>
C13_EmptyInputCompletesAtOnce ==
    /\ ~thrown
    /\ StartedOnEmpty =>
          /\ playState = "Complete"
          /\ timers = {} /\ animationInterval = NoTimer
          /\ tickLog = <<>>
\* What the code does on an empty array: one timer runs until the path has been
\* drawn, and the tick after that completes the playback.
EmptyInputStillTicks ==
    StartedOnEmpty =>
        /\ playState = "Running" <=> timers # {}
        /\ Len(tickLog) = currentAnimationStep
        /\ playState = "Complete" => Len(tickLog) = Len(pathNodes)

\* C14: in the A* reconstruction a node without an entry in the heuristic table
\* counts as h = 0 everywhere: in the start node's initial queue entry (whose f
\* is then 0) and in the f of every neighbour.
DefaultsToZero(e) ==
    /\ IsNum(e.h) /\ IsNum(e.f)
    /\ e.h[1] = OrZero(HeuristicOf(e.node))
    /\ e.f[1] = e.g + e.h[1]
C14_MissingHeuristicIsZero ==
    algorithm = "astar" =>
        /\ \A k \in 1..Len(frontier) : DefaultsToZero(frontier[k])
        /\ \A k \in 1..Len(dataStructureSteps) :
              \A j \in 1..Len(dataStructureSteps[k]) : IsNum(dataStructureSteps[k][j].f)
\* The default is applied to every entry but the start node's.
NeighboursDefaultToZero ==
    algorithm = "astar" =>
        \A k \in 1..Len(frontier) : frontier[k].node # Start => DefaultsToZero(frontier[k])

\* C15: narration lines and snapshots are paired by index under all three
\* policies: the snapshot at index j is the frontier recorded right after the
\* action the narration line at index j describes.
LineOfLastSnapshot == algorithmSteps[Len(dataStructureSteps)]
PairedAtLastSnapshot ==
    /\ lastAct = "init" => LineOfLastSnapshot.kind = "init"
    /\ (lastAct = "visit" /\ i > 0) =>
          /\ LineOfLastSnapshot.kind = "pop"
          /\ LineOfLastSnapshot.node = explored[i + 1]
    /\ JustExpanded =>
          /\ LineOfLastSnapshot.kind = "expand"
          /\ LineOfLastSnapshot.node = explored[ExpandedIdx]
C15_LinesAndSnapshotsPaired == pc # "done" => PairedAtLastSnapshot
\* The pairing holds for the queue and the stack, whose lines each come with a
\* snapshot until the goal line.
PairedForQueueAndStack == (pc # "done" /\ algorithm # "astar") => PairedAtLastSnapshot

\* C16 as stated: for every policy and input, the number of recorded snapshots
\* is explored.length plus the number of expansion steps.
ExpandLines == {k \in 1..Len(algorithmSteps) : algorithmSteps[k].kind = "expand"}
C16_SnapshotsAreExploredPlusExpansions ==
    pc = "done" => Len(dataStructureSteps) = Len(explored) + Cardinality(ExpandLines)
\* C16 amended: the number of recorded snapshots is the number of explored
\* indices the loop processes (all of them, or those up to the first goal), and
\* 1 when explored is empty, plus the number of expansion steps.
Processed == IF Goal \in Range(explored) THEN FirstGoalIdx ELSE Len(explored)
C16_SnapshotsAreProcessedPlusExpansions ==
    pc = "done" =>
        Len(dataStructureSteps) =
            (IF explored = <<>> THEN 1 ELSE Processed) + Cardinality(ExpandLines)
C16_Witness ==
    /\ pc = "done"
    /\ Goal \in Range(explored) /\ Processed < Len(explored)
    /\ Cardinality(ExpandLines) >= 1

\* C17: a started playback that is not reset reaches Complete after finitely
\* many ticks (the timer being fair); at Complete the timer is cancelled and no
\* rendering instruction is emitted any more.
C17_ReachesCompleteAndStops ==
    /\ [](playState = "Complete" => timers = {} /\ animationInterval = NoTimer)
    /\ [][(playState = "Complete" /\ playState' = "Complete") =>
             (tickLog' = tickLog /\ cellClasses' = cellClasses /\ robotAt' = robotAt
              /\ stepsShown' = stepsShown /\ dsShown' = dsShown)]_vars
    /\ (playState = "Running") ~> (playState \in {"Complete", "Idle"})
C17_Witness ==
    /\ playState = "Complete"
    /\ ~restarted
    /\ Len(tickLog) = Len(exploredNodes) + Len(pathNodes)
    /\ Len(pathNodes) >= 1 /\ Len(exploredNodes) >= 1

\* ------------------------------------------------------------ the solver's order
\* The order in which a run of the policy itself finalises nodes: the frontier
\* starts with the start node, every step removes the front / top / minimum-f
\* element (the start node included), stops at the goal, and otherwise adds the
\* node's neighbours the way the policy adds them.  An A* entry whose node is
\* already finalised is dropped.
RECURSIVE RealOrder(_, _, _)
RealOrder(alg, st, order) ==
    IF st.frontier = <<>> THEN order
    ELSE LET node == NodeOf(alg, RemovedBy(alg, st.frontier))
             s1 == [st EXCEPT !.frontier = Remove(alg, @)]
         IN IF alg = "astar" /\ node \in st.visited THEN RealOrder(alg, s1, order)
            ELSE LET s2 == IF alg = "astar" THEN [s1 EXCEPT !.visited = @ \cup {node}] ELSE s1
                 IN IF node = Goal THEN Append(order, node)
                    ELSE RealOrder(alg, ExpandPhase(alg, s2, node), Append(order, node))
IsRealRun == explored = RealOrder(algorithm, InitLocals(algorithm), <<>>)

\* C18: when explored is the order a real run of the policy produces, every pop
\* step (explored index i >= 1) removes from the simulated frontier the very
\* node explored[i] its narration names.
PopStep == lastAct = "visit" /\ i >= 1
C18_PopRemovesNamedNode ==
    (IsRealRun /\ PopStep) => (Len(removed) = i /\ Last(removed) = explored[i + 1])
\* The stack keeps the start node at its bottom, out of the way of every pop.
PopRemovesNamedNodeDfs ==
    (algorithm = "dfs" /\ IsRealRun /\ PopStep) =>
        (Len(removed) = i /\ Last(removed) = explored[i + 1])
\* The queue gives up the node of the previous index instead.
PopRemovesPreviousNodeBfs ==
    (algorithm = "bfs" /\ IsRealRun /\ PopStep) =>
        (Len(removed) = i /\ Last(removed) = explored[i])

\* C19: when a playback that was not reset reaches Complete, every narration
\* line (the goal line and the three summary lines included) and every recorded
\* snapshot has been shown at some tick.
\* Tick n shows the lines 0..n and the snapshot n, so after the ticks 0..N-1 the
\* lines shown are the first stepsShown ones and the snapshots shown the first N.
C19_EverythingDisplayed ==
    (playState = "Complete" /\ ~exploredNull) =>
        /\ stepsShown = Len(algorithmSteps)
        /\ Len(tickLog) >= Len(dataStructureSteps)
\* What is shown at Complete: as many lines as ticks have run.
ShownIsBoundedByTicks ==
    playState = "Complete" =>
        /\ stepsShown <= Len(exploredNodes) + Len(pathNodes)
        /\ Len(algorithmSteps) >= 4

\* C20: in the BFS and DFS reconstructions every node in the frontier is in the
\* visited set and every node id enters the frontier at most once (each visited
\* node is in the frontier or has been removed from it, once), so no snapshot
\* holds a node id twice, whatever the graph and the explored sequence.
C20_FrontierWithinVisitedNoDuplicates ==
    algorithm \in {"bfs", "dfs"} =>
        /\ Range(frontier) \subseteq visited
        /\ NoDuplicates(frontier)
        /\ Len(frontier) + Len(removed) = Cardinality(visited)
        /\ \A k \in 1..Len(dataStructureSteps) : NoDuplicates(dataStructureSteps[k])
C20_Witness ==
    /\ algorithm \in {"bfs", "dfs"} /\ JustExpanded /\ i >= 1
    /\ Range(Keys(explored[ExpandedIdx])) \cap preVisited # {}
    /\ Len(frontier) >= 2

====
